---- MODULE Spec2Model ----
(***************************************************************************)
(* Model of the groknul-bot conversation store, leveled rollup engine and  *)
(* context assembly.                                                       *)
(*                                                                         *)
(*   messages   the "messages" collection (Message.ts), kept in ascending  *)
(*              sentAt order; timestamps are assumed pairwise distinct and *)
(*              a document's sentAt is identified with the document's      *)
(*              telegramId wherever a Summary records a covered range.     *)
(*   summaries  the "summaries" collection (Summary.ts), a set of documents*)
(*   inv        the running ensureSummaries invocations                    *)
(*              (telegram-bot.service.ts:313-428), one record per slot,    *)
(*              advanced one store access or capability call at a time.    *)
(*   hist       history (ghost) variables of each invocation.              *)
(*   editLog    history of the newText arguments of the editMessage calls  *)
(*              that returned normally, per stored message.                *)
(*   outcome    the last store operation an event handler ran and the      *)
(*              error it caught, if any.                                   *)
(*   memories   the "memories" collection (Memory.ts), in creation order.  *)
(*   gen        the running generateAndSendResponse invocation             *)
(*              (telegram-bot.service.ts:715-830), advanced one store      *)
(*              access at a time.                                          *)
(*   run        per handler slot, the locals of the running handleMessage  *)
(*              or editMessage call and of the generateResponse call it    *)
(*              makes, with the history of its capability calls.           *)
(*   users      the "telegram_users" collection (TelegramUser.ts), as the  *)
(*              set of stored telegramIds.                                 *)
(*   sent       per conversation, the number of native message ids the     *)
(*              transport has handed out.                                  *)
(***************************************************************************)
EXTENDS Integers, Sequences, FiniteSets, TLC

VARIABLES messages, summaries, inv, hist, settled, editLog,
          outcome, memories, gen, run, users, sent

vars == <<messages, summaries, inv, hist, settled, editLog,
          outcome, memories, gen, run, users, sent>>

\* The variables the rollup engine and editMessage never touch.
others == <<outcome, memories, gen, run, users, sent>>

----------------------------------------------------------------------------
(* Bounds *)

\* Block size: 200 in the source, scaled down so that several levels fill.
K == 2

\* Number of messages delivered to the conversation whose rollups are followed.
MaxMsgs == 8

\* Number of editMessage calls explored per stored message.
MaxEdits == 3

\* Native message ids delivered in the store specification.
MaxId == 2

Chats == {1, 2}

\* The rollup specification follows the invocations of one conversation.
RollupChats == {1}

\* Concurrent ensureSummaries invocations (slots).
Procs == {1, 2}

\* Outputs of the external summarization capability.  No code path inspects
\* the text, so an output is identified with the invocation slot that asked
\* for it: two invocations summarizing the same block may get different texts.
TextFor(p) == IF p = 1 THEN "a" ELSE "b"

\* Message texts delivered by the transport.
MsgTexts == {"x", "y"}

----------------------------------------------------------------------------
(* Helpers *)

Min(a, b) == IF a < b THEN a ELSE b

\* MongoDB equality filter: every field of the filter must be present in the
\* document with an equal value.
Matches(doc, filter) ==
  \A f \in DOMAIN filter : f \in DOMAIN doc /\ doc[f] = filter[f]

----------------------------------------------------------------------------
(* Message collection *)

\* Variant of NewMessage: the two ids are taken for one another.
NewMessage_swapped(telegramId, chatId, txt) ==
  [telegramId |-> chatId, chatTelegramId |-> telegramId, text |-> txt,
   edits |-> <<>>, reactions |-> <<>>]

\* The document saveMessage inserts: the ids and content of messageData,
\* edits: [] and reactions: [].
NewMessage(telegramId, chatId, txt) ==
  [telegramId |-> telegramId, chatTelegramId |-> chatId, text |-> txt,
   edits |-> <<>>, reactions |-> <<>>]

ChatMessages(chatId) ==
  SelectSeq(messages, LAMBDA m : Matches(m, [chatTelegramId |-> chatId]))

countMessages(chatId) == Len(ChatMessages(chatId))

\* Variant of getMessagesAscending: skips one document too many.
getMessagesAscending_skip(chatId, skip, limit) ==
  LET all == ChatMessages(chatId)
  IN  SubSeq(all, skip + 2, Min(skip + limit, Len(all)))

\* find({chatTelegramId}).sort({sentAt: 1}).skip(skip).limit(limit)
getMessagesAscending(chatId, skip, limit) ==
  LET all == ChatMessages(chatId)
  IN  SubSeq(all, skip + 1, Min(skip + limit, Len(all)))

----------------------------------------------------------------------------
(* Summary collection *)

SummaryKey(s) == <<s.chatTelegramId, s.level, s.index>>

AtLevel(chatId, lvl) ==
  {s \in summaries : s.chatTelegramId = chatId /\ s.level = lvl}

getCount(chatId, lvl) == Cardinality(AtLevel(chatId, lvl))

exists(chatId, lvl, index) ==
  \E s \in summaries : SummaryKey(s) = <<chatId, lvl, index>>

RECURSIVE SortByIndex(_)
SortByIndex(S) ==
  IF S = {} THEN <<>>
  ELSE LET m == CHOOSE s \in S : \A t \in S : s.index <= t.index
       IN  <<m>> \o SortByIndex(S \ {m})

getRangeByLevelAscending(chatId, lvl, skip, limit) ==
  LET all == SortByIndex(AtLevel(chatId, lvl))
  IN  SubSeq(all, skip + 1, Min(skip + limit, Len(all)))

\* Variant of upsertSummary: a plain insert.
upsertSummary_insert(S, doc) == S \cup {doc}

\* updateOne(key filter, {$set: summary, startSentAt, endSentAt;
\*                        $setOnInsert: key}, {upsert: true})
upsertSummary(S, doc) ==
  LET match == {s \in S : SummaryKey(s) = SummaryKey(doc)}
  IN  IF match = {}
      THEN S \cup {doc}
      ELSE LET m == CHOOSE s \in match : TRUE
           IN  (S \ {m}) \cup
               {[m EXCEPT !.summary = doc.summary,
                          !.startSentAt = doc.startSentAt,
                          !.endSentAt = doc.endSentAt,
                          !.src = doc.src]}

----------------------------------------------------------------------------
(* ensureSummaries invocations *)

IdleInv ==
  [pc |-> "idle", chatId |-> 0, totalMessages |-> 0, i |-> 0, required |-> 0,
   level |-> 0, lowerCount |-> 0, batch |-> <<>>, startSentAt |-> 0,
   endSentAt |-> 0, summary |-> "", failed |-> FALSE]

IdleHist ==
  [clean |-> FALSE, quiet |-> FALSE, called |-> FALSE, wrote |-> FALSE,
   overwrote |-> FALSE]

Free(p) == inv[p].pc \in {"idle", "done"}

\* The block the invocation in slot p is working on.
CurKey(p) == <<inv[p].chatId, inv[p].level, inv[p].i>>

\* Every message saved to chatId ends the "no message added" period of the
\* invocations of that conversation.
Touch(h, chatId) ==
  [q \in Procs |->
     IF inv[q].chatId = chatId
     THEN [h[q] EXCEPT !.clean = FALSE, !.quiet = FALSE]
     ELSE h[q]]

\* A Summary write by slot p ends the "unchanged" period of the others.
Disturb(h, p) ==
  [q \in Procs |->
     IF q # p /\ inv[q].chatId = inv[p].chatId
     THEN [h[q] EXCEPT !.quiet = FALSE]
     ELSE h[q]]

\* No event handled yet.
NoOutcome ==
  [op |-> "none", error |-> "none", telegramId |-> 0, chatTelegramId |-> 0,
   userTelegramId |-> 0, added |-> <<>>, removed |-> <<>>]

\* The store operation a handler ran on a message and the error it caught.
Outcome(op, error, telegramId, chatId) ==
  [NoOutcome EXCEPT !.op = op, !.error = error, !.telegramId = telegramId,
                    !.chatTelegramId = chatId]

\* Locals of a generateAndSendResponse invocation that has not started.
\* seen is a history field: the number of messages of the conversation at
\* the read of the raw window.
IdleGen ==
  [pc |-> "idle", chatId |-> 0, recentMessages |-> <<>>, seen |-> 0,
   totalMessages |-> 0, sections |-> <<>>, full |-> FALSE]

\* Locals of a handler slot that has no event: the event (chatId, telegramId,
\* userTelegramId, mention, replyToBot), existingUser of upsertUser, the
\* decision of generateResponse with its arguments, toolsUsed, and newVersion
\* and newText of editMessage (text then holds existingMessage.text).  History fields: rollup (state of the ensureSummaries
\* invocation the handler started), full (summaries were handed to
\* buildContext), calls (capability calls and sends in order), routed (the
\* tool calls of the router's completion), requested (a completion asked
\* for save_to_memory), result (how the handler ended).
IdleRun ==
  [pc |-> "idle", chatId |-> 0, telegramId |-> 0, userTelegramId |-> "none",
   mention |-> FALSE, replyToBot |-> FALSE, existingUser |-> FALSE,
   decision |-> "none", text |-> "", provideAllChatHistory |-> FALSE,
   enableWebAccess |-> FALSE, toolsUsed |-> <<>>, newVersion |-> 0,
   newText |-> "", reactor |-> 0, added |-> <<>>, removed |-> <<>>,
   updatedReactions |-> <<>>, redelivered |-> FALSE,
   rollup |-> "none", full |-> FALSE, calls |-> <<>>, routed |-> <<>>,
   requested |-> FALSE, result |-> "none"]

Init ==
  /\ messages = <<>>
  /\ summaries = {}
  /\ inv = [p \in Procs |-> IdleInv]
  /\ hist = [p \in Procs |-> IdleHist]
  /\ settled = [c \in Chats |-> FALSE]
  /\ editLog = <<>>
  /\ outcome = NoOutcome
  /\ memories = <<>>
  /\ gen = IdleGen
  /\ run = [p \in Procs |-> IdleRun]
  /\ users = {}
  /\ sent = [c \in Chats |-> 0]

\* Unique indexes of the collection: (telegramId, chatTelegramId) and
\* telegramId alone.
DuplicateKey(doc) ==
  \/ \E n \in 1..Len(messages) :
       Matches(messages[n], [telegramId |-> doc.telegramId,
                             chatTelegramId |-> doc.chatTelegramId])
  \/ \E n \in 1..Len(messages) :
       Matches(messages[n], [telegramId |-> doc.telegramId])

\* MessageModel.saveMessage: insertOne of a document with empty edits and
\* reactions; its sentAt is later than every stored one.
saveMessage(telegramId, chatId, txt) ==
  LET doc == NewMessage(telegramId, chatId, txt)
  IN  /\ ~DuplicateKey(doc)
      /\ messages' = Append(messages, doc)
      /\ editLog' = editLog @@ (<<chatId, telegramId>> :> <<>>)
      /\ settled' = [settled EXCEPT ![chatId] = FALSE]

\* The transport delivers a message with a native id not seen before.
FreshId == Len(messages) + 1

\* handleMessage (and the reply path of generateAndSendResponse): persist the
\* message, then start ensureSummaries without awaiting it.
HandleMessage(chatId) ==
  /\ Len(messages) < MaxMsgs
  /\ \E p \in Procs : Free(p)
  /\ saveMessage(FreshId, chatId, "x")
  /\ LET p == CHOOSE q \in Procs : Free(q) /\ \A r \in Procs : Free(r) => q <= r
     IN  /\ inv' = [inv EXCEPT ![p] = [IdleInv EXCEPT !.pc = "count",
                                                     !.chatId = chatId]]
         /\ hist' = [Touch(hist, chatId) EXCEPT ![p] = IdleHist]
  /\ UNCHANGED summaries
  /\ UNCHANGED others

\* A bot message persisted without a rollup trigger (tool notice, fallback
\* reply of generateAndSendResponse).
SaveOnly(chatId) ==
  /\ Len(messages) < MaxMsgs
  /\ saveMessage(FreshId, chatId, "x")
  /\ hist' = Touch(hist, chatId)
  /\ UNCHANGED <<summaries, inv>>
  /\ UNCHANGED others

\* const totalMessages = await messageModel.countMessages(chatId)
CountMessages(p) ==
  /\ inv[p].pc = "count"
  /\ inv' = [inv EXCEPT ![p].pc = "have",
                        ![p].totalMessages = countMessages(inv[p].chatId)]
  /\ hist' = [hist EXCEPT ![p].clean = TRUE,
                          ![p].quiet = settled[inv[p].chatId]]
  /\ UNCHANGED <<messages, summaries, settled, editLog>>
  /\ UNCHANGED others

\* Variants of FirstIndex: the loop skips the first missing block / restarts
\* at block 0.
FirstIndex_skip(existing) == existing + 1

FirstIndex_zero(existing) == 0

\* for (let i = existing; ...
FirstIndex(existing) == existing

\* Variant of RequiredBlocks: rounds up, counting the incomplete block.
RequiredBlocks_ceil(count) == (count + K - 1) \div K

\* Math.floor(count / 200)
RequiredBlocks(count) == count \div K

\* const existing = await summaryModel.getCount(chatId, level);
\* const required = Math.floor(count / 200); for (let i = existing; ...
GetExisting(p) ==
  /\ inv[p].pc = "have"
  /\ LET lower == IF inv[p].level = 0 THEN inv[p].totalMessages
                  ELSE inv[p].lowerCount
     IN  inv' = [inv EXCEPT ![p].pc = "read",
                            ![p].i = FirstIndex(getCount(inv[p].chatId,
                                                         inv[p].level)),
                            ![p].required = RequiredBlocks(lower),
                            ![p].totalMessages = 0, ![p].lowerCount = 0]
  /\ UNCHANGED <<messages, summaries, hist, settled, editLog>>
  /\ UNCHANGED others

\* The sources of block i of the level: messages for level 0, level-(L-1)
\* Summaries above.  Each entry is <<id, startSentAt, endSentAt>>.
ReadRange(chatId, lvl, i) ==
  IF lvl = 0
  THEN LET b == getMessagesAscending(chatId, i * K, K)
       IN  [n \in 1..Len(b) |-> <<b[n].telegramId, b[n].telegramId,
                                  b[n].telegramId>>]
  ELSE LET r == getRangeByLevelAscending(chatId, lvl - 1, i * K, K)
       IN  [n \in 1..Len(r) |-> <<r[n].index, r[n].startSentAt,
                                  r[n].endSentAt>>]

BreakOn(batch) == Len(batch) = 0

\* Loop test, range read, break test, and the summarizeText request.
ReadBatch(p) ==
  /\ inv[p].pc = "read"
  /\ LET batch == ReadRange(inv[p].chatId, inv[p].level, inv[p].i)
     IN  IF inv[p].i < inv[p].required /\ ~BreakOn(batch)
         THEN /\ inv' = [inv EXCEPT ![p].pc = "sum",
                                    ![p].batch = [n \in 1..Len(batch) |->
                                                    batch[n][1]],
                                    ![p].startSentAt = batch[1][2],
                                    ![p].endSentAt = batch[Len(batch)][3]]
              /\ hist' = [hist EXCEPT ![p].called = TRUE]
         ELSE /\ inv' = [inv EXCEPT ![p].pc = "lower",
                                    ![p].level = @ + 1,
                                    ![p].i = 0, ![p].required = 0]
              /\ hist' = hist
  /\ UNCHANGED <<messages, summaries, settled, editLog>>
  /\ UNCHANGED others

\* summarizeText returns a text.
SummarizeOk(p, t) ==
  /\ inv[p].pc = "sum"
  /\ inv' = [inv EXCEPT ![p].pc = "ups", ![p].summary = t]
  /\ UNCHANGED <<messages, summaries, hist, settled, editLog>>
  /\ UNCHANGED others

\* Variant of OnFailure: the failure is swallowed and an empty Summary stored.
OnFailure_write(S, p) ==
  upsertSummary(S, [chatTelegramId |-> inv[p].chatId, level |-> inv[p].level,
                    index |-> inv[p].i, summary |-> "",
                    startSentAt |-> inv[p].startSentAt,
                    endSentAt |-> inv[p].endSentAt, src |-> inv[p].batch])

\* The rejection of summarizeText propagates out of ensureSummaries: nothing
\* is written.
OnFailure(S, p) == S

\* summarizeText rejects: ensureSummaries rejects, the caller logs it.
SummarizeFail(p) ==
  /\ inv[p].pc = "sum"
  /\ inv' = [inv EXCEPT ![p].pc = "done", ![p].failed = TRUE,
                        ![p].batch = <<>>, ![p].startSentAt = 0,
                        ![p].endSentAt = 0, ![p].required = 0]
  /\ summaries' = OnFailure(summaries, p)
  /\ UNCHANGED <<messages, hist, settled, editLog>>
  /\ UNCHANGED others

\* await summaryModel.upsertSummary({...}); i++
Upsert(p) ==
  /\ inv[p].pc = "ups"
  /\ summaries' = upsertSummary(summaries,
       [chatTelegramId |-> inv[p].chatId, level |-> inv[p].level,
        index |-> inv[p].i, summary |-> inv[p].summary,
        startSentAt |-> inv[p].startSentAt, endSentAt |-> inv[p].endSentAt,
        src |-> inv[p].batch])
  /\ inv' = [inv EXCEPT ![p].pc = "read", ![p].i = @ + 1,
                        ![p].batch = <<>>, ![p].startSentAt = 0,
                        ![p].endSentAt = 0, ![p].summary = ""]
  /\ hist' = [Disturb(hist, p) EXCEPT
                ![p].wrote = TRUE,
                ![p].overwrote = @ \/ exists(inv[p].chatId, inv[p].level,
                                             inv[p].i)]
  /\ settled' = [settled EXCEPT ![inv[p].chatId] = FALSE]
  /\ UNCHANGED <<messages, editLog>>
  /\ UNCHANGED others

\* Variant of StopAt: a lower level of exactly K Summaries is not rolled up.
StopAt_le(lowerCount) == lowerCount <= K

\* if (lowerCount < 200) break;
StopAt(lowerCount) == lowerCount < K

\* const lowerCount = await summaryModel.getCount(chatId, level - 1);
GetLowerCount(p) ==
  /\ inv[p].pc = "lower"
  /\ LET lc == getCount(inv[p].chatId, inv[p].level - 1)
     IN  inv' = [inv EXCEPT ![p].pc = IF StopAt(lc) THEN "fin" ELSE "have",
                            ![p].lowerCount = lc]
  /\ UNCHANGED <<messages, summaries, hist, settled, editLog>>
  /\ UNCHANGED others

\* logger.info('Ensuring summaries complete'); the promise resolves.
Finish(p) ==
  /\ inv[p].pc = "fin"
  /\ inv' = [inv EXCEPT ![p] = [IdleInv EXCEPT !.pc = "done",
                                               !.chatId = inv[p].chatId]]
  /\ settled' = [settled EXCEPT ![inv[p].chatId] = hist[p].clean]
  /\ UNCHANGED <<messages, summaries, hist, editLog>>
  /\ UNCHANGED others

Next ==
  \/ \E c \in RollupChats : HandleMessage(c)
  \/ \E c \in RollupChats : SaveOnly(c)
  \/ \E p \in Procs : CountMessages(p)
  \/ \E p \in Procs : GetExisting(p)
  \/ \E p \in Procs : ReadBatch(p)
  \/ \E p \in Procs : SummarizeOk(p, TextFor(p))
  \/ \E p \in Procs : SummarizeFail(p)
  \/ \E p \in Procs : Upsert(p)
  \/ \E p \in Procs : GetLowerCount(p)
  \/ \E p \in Procs : Finish(p)

Spec == Init /\ [][Next]_vars

----------------------------------------------------------------------------
(* Rollup engine under fairness: failed blocks are retried by later triggers *)

\* Number of messages the fair specification stores; later messages only
\* start their invocation.
LiveMsgs == 4

\* handleMessage: the message is saved and ensureSummaries started.  Of a
\* message that arrives after the last one the model stores, only the
\* invocation is followed, over the stored messages.
HandleLive(chatId) ==
  /\ \E p \in Procs : Free(p)
  /\ IF Len(messages) < LiveMsgs
     THEN saveMessage(FreshId, chatId, "x")
     ELSE UNCHANGED <<messages, editLog, settled>>
  /\ LET p == CHOOSE q \in Procs : Free(q) /\ \A r \in Procs : Free(r) => q <= r
     IN  /\ inv' = [inv EXCEPT ![p] = [IdleInv EXCEPT !.pc = "count",
                                                     !.chatId = chatId]]
         /\ hist' = [Touch(hist, chatId) EXCEPT ![p] = IdleHist]
  /\ UNCHANGED summaries
  /\ UNCHANGED others

\* A message arrives and starts an invocation.
Trigger == \E c \in RollupChats : HandleLive(c)

\* The invocation in slot p takes its next step.
Step(p) ==
  \/ CountMessages(p)
  \/ GetExisting(p)
  \/ ReadBatch(p)
  \/ SummarizeOk(p, TextFor(p))
  \/ SummarizeFail(p)
  \/ Upsert(p)
  \/ GetLowerCount(p)
  \/ Finish(p)

NextLive ==
  \/ Trigger
  \/ \E p \in Procs : CountMessages(p)
  \/ \E p \in Procs : GetExisting(p)
  \/ \E p \in Procs : ReadBatch(p)
  \/ \E p \in Procs : SummarizeOk(p, TextFor(p))
  \/ \E p \in Procs : SummarizeFail(p)
  \/ \E p \in Procs : Upsert(p)
  \/ \E p \in Procs : GetLowerCount(p)
  \/ \E p \in Procs : Finish(p)

\* Messages keep arriving; every await of an invocation returns; a
\* summarizeText call that is made again and again succeeds in the end.
LiveFairness ==
  /\ WF_vars(Trigger)
  /\ \A p \in Procs : WF_vars(Step(p)) /\ SF_vars(SummarizeOk(p, TextFor(p)))

SpecLive == Init /\ [][NextLive]_vars /\ LiveFairness

(***************************************************************************)
(* Messages saved out of sent-time order.  sentAt is the date the         *)
(* transport gave the message (new Date(message.date * 1000)), for the    *)
(* bot's replies the date of the sent message.  A message a user sent     *)
(* while a reply was being generated is handled after the reply has been  *)
(* saved, and its date is earlier than the reply's.  messages is kept in  *)
(* sentAt order, so such a save inserts the document before stored ones.  *)
(***************************************************************************)

\* Messages stored in the specification of out-of-order saves.
LateMsgs == 3

\* handleMessage of a message that may be saved after messages sent later
\* than it: saveMessage inserts a document whose sentAt is earlier than
\* that of the stored document at position before and of all that follow
\* it (later than every stored one when before is past the last position),
\* and ensureSummaries is started.
HandleLate(chatId, before) ==
  LET doc == NewMessage(FreshId, chatId, "x")
  IN  /\ \E p \in Procs : Free(p)
      /\ Len(messages) < LateMsgs
      /\ before \in 1..(Len(messages) + 1)
      /\ ~DuplicateKey(doc)
      /\ messages' = SubSeq(messages, 1, before - 1) \o <<doc>>
                       \o SubSeq(messages, before, Len(messages))
      /\ editLog' = editLog @@ (<<chatId, FreshId>> :> <<>>)
      /\ settled' = [settled EXCEPT ![chatId] = FALSE]
      /\ LET p == CHOOSE q \in Procs :
                    Free(q) /\ \A r \in Procs : Free(r) => q <= r
         IN  /\ inv' = [inv EXCEPT ![p] = [IdleInv EXCEPT !.pc = "count",
                                                         !.chatId = chatId]]
             /\ hist' = [Touch(hist, chatId) EXCEPT ![p] = IdleHist]
      /\ UNCHANGED summaries
      /\ UNCHANGED others

NextLate ==
  \/ \E c \in RollupChats, n \in 1..LateMsgs : HandleLate(c, n)
  \/ \E p \in Procs : CountMessages(p)
  \/ \E p \in Procs : GetExisting(p)
  \/ \E p \in Procs : ReadBatch(p)
  \/ \E p \in Procs : SummarizeOk(p, TextFor(p))
  \/ \E p \in Procs : SummarizeFail(p)
  \/ \E p \in Procs : Upsert(p)
  \/ \E p \in Procs : GetLowerCount(p)
  \/ \E p \in Procs : Finish(p)

SpecLate == Init /\ [][NextLate]_vars

----------------------------------------------------------------------------
(* Message store: saveMessage and editMessage *)

\* Variant of findByMessageTelegramId: matches the native id in any
\* conversation.
findByMessageTelegramId_anyChat(telegramId, chatId) ==
  SelectSeq(messages, LAMBDA m : Matches(m, [telegramId |-> telegramId]))

\* aggregate([{$match: {telegramId, chatTelegramId}}, ...]); the stored
\* documents that match, in collection order (empty: null is returned).
findByMessageTelegramId(telegramId, chatId) ==
  SelectSeq(messages, LAMBDA m : Matches(m, [telegramId |-> telegramId,
                                             chatTelegramId |-> chatId]))

\* { text: existingMessage.text, editedAt: now,
\*   version: existingMessage.edits.length + 1 }
editEntry(existingMessage) ==
  [text |-> existingMessage.text,
   version |-> Len(existingMessage.edits) + 1]

\* The filter object { messageId, chatId } handed to updateOne.
EditFilter(messageId, chatId) == [messageId |-> messageId, chatId |-> chatId]

\* updateOne(filter, {$set: {text: newText, ...}, $push: {edits: editEntry}}):
\* the first document matching the filter is updated, none if none matches.
updateOneEdit(filter, newText, entry) ==
  LET hit == {n \in 1..Len(messages) : Matches(messages[n], filter)}
  IN  IF hit = {}
      THEN messages
      ELSE LET n == CHOOSE k \in hit : \A j \in hit : k <= j
           IN  [messages EXCEPT ![n].text = newText,
                                ![n].edits = Append(@, entry)]

\* MessageModel.saveMessage of a delivered message.
SaveMessage(telegramId, chatId, txt) ==
  /\ Len(messages) < MaxId
  /\ saveMessage(telegramId, chatId, txt)
  /\ UNCHANGED <<summaries, inv, hist>>
  /\ UNCHANGED others

\* handleMessageEdit -> MessageModel.editMessage on a stored message: the call
\* returns normally.
EditMessage(messageId, chatId, newText) ==
  LET found == findByMessageTelegramId(messageId, chatId)
  IN  /\ Len(found) > 0
      /\ Len(editLog[<<chatId, messageId>>]) < MaxEdits
      /\ messages' = updateOneEdit(EditFilter(messageId, chatId), newText,
                                   editEntry(found[1]))
      /\ editLog' = [editLog EXCEPT ![<<chatId, messageId>>] =
                                      Append(@, newText)]
      /\ UNCHANGED <<summaries, inv, hist, settled>>
  /\ UNCHANGED others

NextStore ==
  \/ \E id \in 1..MaxId, c \in Chats, t \in MsgTexts : SaveMessage(id, c, t)
  \/ \E id \in 1..MaxId, c \in Chats, t \in MsgTexts : EditMessage(id, c, t)

SpecStore == Init /\ [][NextStore]_vars

----------------------------------------------------------------------------
(* Message store: updateReactions and the operations that throw *)

\* Reactions stored in the collection, all messages together.
MaxReactions == 2

\* Native message ids delivered in the specification of these operations.
EventIds == {1, 2}

\* Reaction authors.
Users == {1, 2}

\* Authors that have a document in the "telegramusers" collection (the
\* read-time join resolves their profile); the others only ever reacted.
Profiles == {1}

\* The value of a field an object does not carry.
Undefined == "undefined"

\* The reaction keys handleMessageReaction builds: {emoji} from emojiAdded
\* and emojiRemoved, {customEmojiId} from customEmojiAdded and
\* customEmojiRemoved.  Two custom emoji: keys that agree on the emoji field.
ReactionKeys ==
  {[emoji |-> Undefined, customEmojiId |-> "c"],
   [emoji |-> Undefined, customEmojiId |-> "d"]}

\* The addedReactions and removedReactions arrays of one reaction event.
ReactionLists == {<<>>} \cup {<<k>> : k \in ReactionKeys}

\* $map of buildPopulationStages: every reaction read through the aggregate
\* carries the joined user document of its author ("profile"), when there
\* is one.
populateReactions(reactions) ==
  [n \in 1..Len(reactions) |->
     [reactions[n] EXCEPT !.user =
        IF reactions[n].userTelegramId \in Profiles
        THEN "profile"
        ELSE Undefined]]

\* Variant of removedBy: compares the emoji only.
removedBy_emoji(reaction, removedReactions) ==
  \E n \in 1..Len(removedReactions) :
    removedReactions[n].emoji = reaction.emoji

\* removedReactions.some(r => r.emoji === reaction.emoji &&
\*                            r.customEmojiId === reaction.customEmojiId)
removedBy(reaction, removedReactions) ==
  \E n \in 1..Len(removedReactions) :
    /\ removedReactions[n].emoji = reaction.emoji
    /\ removedReactions[n].customEmojiId = reaction.customEmojiId

\* Variant of keptReactions: the author of a reaction is not looked at.
keptReactions_anyone(reactions, userTelegramId, removedReactions) ==
  SelectSeq(reactions, LAMBDA reaction : ~removedBy(reaction, removedReactions))

\* message.reactions.filter(...): reactions of other authors stay, the
\* author's own stay unless their key is in removedReactions.
keptReactions(reactions, userTelegramId, removedReactions) ==
  SelectSeq(reactions, LAMBDA reaction :
    IF reaction.userTelegramId # userTelegramId
    THEN TRUE
    ELSE ~removedBy(reaction, removedReactions))

\* addedReactions.map(reaction => ({...reaction, userTelegramId, addedAt}))
newReactions(userTelegramId, addedReactions) ==
  [n \in 1..Len(addedReactions) |->
     [userTelegramId |-> userTelegramId,
      emoji |-> addedReactions[n].emoji,
      customEmojiId |-> addedReactions[n].customEmojiId,
      user |-> Undefined]]

\* updateOne({telegramId, chatTelegramId}, {$set: {reactions}})
updateOneReactions(telegramId, chatId, updatedReactions) ==
  LET hit == {n \in 1..Len(messages) :
                Matches(messages[n], [telegramId |-> telegramId,
                                      chatTelegramId |-> chatId])}
  IN  IF hit = {}
      THEN messages
      ELSE LET n == CHOOSE k \in hit : \A j \in hit : k <= j
           IN  [messages EXCEPT ![n].reactions = updatedReactions]

TotalReactions ==
  Cardinality(UNION {{<<n, k>> : k \in 1..Len(messages[n].reactions)} :
                       n \in 1..Len(messages)})

\* handleMessage -> MessageModel.saveMessage of a message not stored yet;
\* the transport numbers new messages upwards.
SaveFresh(telegramId, chatId) ==
  /\ telegramId = FreshId
  /\ saveMessage(telegramId, chatId, "x")
  /\ outcome' = Outcome("saveMessage", "none", telegramId, chatId)
  /\ UNCHANGED <<summaries, inv, hist, memories, gen, run, users, sent>>

\* insertOne rejected by a unique index: saveMessage throws, the message
\* handler catches and logs the error.
SaveDuplicate(telegramId, chatId) ==
  /\ DuplicateKey(NewMessage(telegramId, chatId, "y"))
  /\ outcome' = Outcome("saveMessage", "DuplicateKey", telegramId, chatId)
  /\ UNCHANGED <<messages, summaries, inv, hist, settled, editLog,
                 memories, gen, run, users, sent>>

\* handleMessageReaction -> MessageModel.updateReactions on a stored message.
UpdateReactions(telegramId, chatId, userTelegramId, added, removed) ==
  LET found == findByMessageTelegramId(telegramId, chatId)
      updatedReactions ==
        keptReactions(populateReactions(found[1].reactions), userTelegramId,
                      removed)
          \o newReactions(userTelegramId, added)
  IN  /\ Len(found) > 0
      /\ TotalReactions - Len(found[1].reactions) + Len(updatedReactions)
            <= MaxReactions
      /\ messages' = updateOneReactions(telegramId, chatId, updatedReactions)
      /\ outcome' = [Outcome("updateReactions", "none", telegramId, chatId)
                        EXCEPT !.userTelegramId = userTelegramId,
                               !.added = added, !.removed = removed]
      /\ UNCHANGED <<summaries, inv, hist, settled, editLog,
                     memories, gen, run, users, sent>>

\* updateReactions when findByMessageTelegramId returns null: 'Message not
\* found' is thrown before any write; handleMessageReaction catches it.
UpdateReactionsNotFound(messageTelegramId, chatId) ==
  /\ Len(findByMessageTelegramId(messageTelegramId, chatId)) = 0
  /\ outcome' = Outcome("updateReactions", "NotFound", messageTelegramId,
                        chatId)
  /\ UNCHANGED <<messages, summaries, inv, hist, settled, editLog,
                 memories, gen, run, users, sent>>

\* editMessage when findByMessageTelegramId returns null: 'Message not
\* found' is thrown before any write; handleMessageEdit catches it.
EditMessageNotFound(messageId, chatId) ==
  /\ Len(findByMessageTelegramId(messageId, chatId)) = 0
  /\ outcome' = Outcome("editMessage", "NotFound", messageId, chatId)
  /\ UNCHANGED <<messages, summaries, inv, hist, settled, editLog,
                 memories, gen, run, users, sent>>

NextEvents ==
  \/ \E id \in EventIds, c \in Chats : SaveFresh(id, c)
  \/ \E id \in EventIds, c \in Chats : SaveDuplicate(id, c)
  \/ \E id \in EventIds, c \in Chats, u \in Users,
        a \in ReactionLists, r \in ReactionLists :
        UpdateReactions(id, c, u, a, r)
  \/ \E id \in EventIds, c \in Chats : UpdateReactionsNotFound(id, c)
  \/ \E id \in EventIds, c \in Chats : EditMessageNotFound(id, c)

SpecEvents == Init /\ [][NextEvents]_vars

----------------------------------------------------------------------------
(* Context assembly: generateAndSendResponse, buildHistoricalContextSections *)

\* Size of the raw window: 200 in the source, the same number as the block
\* size, and the two are not told apart in buildHistoricalContextSections.
W == K

\* The limit passed to listByChat: 100 in the source.
MemoryLimit == 2

\* Memories stored in the collection.
MaxMemories == 3

Max(a, b) == IF a > b THEN a ELSE b

RECURSIVE Pow(_, _)
Pow(b, e) == IF e = 0 THEN 1 ELSE b * Pow(b, e - 1)

Reverse(seq) == [n \in 1..Len(seq) |-> seq[Len(seq) + 1 - n]]

\* aggregate([{$match: {chatTelegramId}}, {$sort: {sentAt: -1}}, {$limit}]):
\* the newest messages of the conversation, newest first.
getRecentMessages(chatId, limit) ==
  LET all == ChatMessages(chatId)
  IN  Reverse(SubSeq(all, Max(1, Len(all) - limit + 1), Len(all)))

\* find({chatTelegramId}).sort({createdAt: 1}).limit(limit)
listByChat(chatId, limit) ==
  LET all == SelectSeq(memories, LAMBDA m : m.chatTelegramId = chatId)
  IN  SubSeq(all, 1, Min(limit, Len(all)))

\* find({chatTelegramId, level}).sort({index: 1})
getByLevelAscending(chatId, lvl) == SortByIndex(AtLevel(chatId, lvl))

\* The Summaries a complete, failure-free ensureSummaries invocation leaves
\* for a conversation of count messages whose native ids are 1..count: at
\* every level L the blocks 0 .. floor(count / K^(L+1)) - 1.
SummariesFor(chatId, count) ==
  {[chatTelegramId |-> chatId, level |-> l, index |-> i,
    summary |-> TextFor(1),
    startSentAt |-> i * Pow(K, l + 1) + 1,
    endSentAt |-> (i + 1) * Pow(K, l + 1),
    src |-> [n \in 1..K |-> IF l = 0 THEN i * K + n ELSE i * K + n - 1]] :
     <<l, i>> \in {x \in (0..MaxMsgs) \X (0..MaxMsgs) :
                     x[2] < count \div Pow(K, x[1] + 1)}}

\* One section of the historical context.  kind is "memory" for the pinned
\* facts and "summary" for a Summary; level and index name the Summary the
\* text was taken from; upper and lower are the numbers of the label.
Section(kind, level, index, title, body, upper, lower) ==
  [kind |-> kind, level |-> level, index |-> index, title |-> title,
   body |-> body, upper |-> upper, lower |-> lower]

\* memories.map(m => `• ${m.text}`) pushed as one section when non-empty.
memorySections(listed) ==
  IF Len(listed) > 0
  THEN <<Section("memory", -1, 0, "Pinned chat memory",
                 [n \in 1..Len(listed) |-> listed[n].text], 0, 0)>>
  ELSE <<>>

\* let probeLevel = 0; while (getCount(chatId, probeLevel) > 0) probeLevel++
RECURSIVE probeLevel(_, _)
probeLevel(chatId, l) ==
  IF getCount(chatId, l) > 0 THEN probeLevel(chatId, l + 1) ELSE l

\* Variant of levelOrder: the levels are visited upwards from 1.
levelOrder_up(maxLevel) ==
  [n \in 1..Max(0, maxLevel) |-> n]

\* for (let l = maxLevel; l >= 1; l--)
levelOrder(maxLevel) ==
  [n \in 1..Max(0, maxLevel) |-> maxLevel + 1 - n]

\* The sections of one level: one per Summary, oldest first.
levelSections(chatId, l, maxLevel) ==
  LET found == getByLevelAscending(chatId, l)
  IN  [n \in 1..Len(found) |->
         Section("summary", l, found[n].index,
                 IF l = maxLevel THEN "Very long time ago messages"
                                 ELSE "Older messages",
                 <<found[n].summary>>, 0, 0)]

RECURSIVE Concat(_)
Concat(seqs) ==
  IF Len(seqs) = 0 THEN <<>> ELSE Head(seqs) \o Concat(Tail(seqs))

\* The sections of levels maxLevel .. 1.
higherSections(chatId) ==
  LET maxLevel == probeLevel(chatId, 0) - 1
      order == levelOrder(maxLevel)
  IN  Concat([n \in 1..Len(order) |->
                levelSections(chatId, order[n], maxLevel)])

\* Math.max(0, Math.floor(Math.max(0, totalMessages - 200) / 200))
blocksBeforeExact(totalMessages) ==
  Max(0, Max(0, totalMessages - W) \div K)

\* Math.min(blocksBeforeExact - 1, completedBlocks - 1)
lastIncludedIdx(totalMessages, completedBlocks) ==
  Min(blocksBeforeExact(totalMessages) - 1, completedBlocks - 1)

\* for (b = 0; b <= lastIncludedIdx; b++) sections.push(
\*   `${upper}-${lower} messages:\n${s.summary}`)
level0Sections(totalMessages, level0Summaries) ==
  LET last == lastIncludedIdx(totalMessages, Len(level0Summaries))
  IN  [n \in 1..(last + 1) |->
         LET distanceFromEnd == last - (n - 1)
             lower == (distanceFromEnd + 1) * K
         IN  Section("summary", 0, level0Summaries[n].index, "messages",
                     <<level0Summaries[n].summary>>, lower + K, lower)]

\* Variant of labelNumber: counts up from the oldest message.
labelNumber_up(length, idx) == idx + 1

\* const labelNumber = chronologicalBase.length - idx   (idx counts from 0)
labelNumber(length, idx) == length - idx

\* messages.reverse().map(...): the raw window oldest first, every message
\* prefixed with its label number.
chronological(recent) ==
  LET base == Reverse(recent)
  IN  [n \in 1..Len(base) |->
         [label |-> labelNumber(Len(base), n - 1),
          telegramId |-> base[n].telegramId]]

\* return [...memoryBlocks, ...summaryBlocks, ...chronological]: the blocks
\* built from the historical sections come before the raw window.  The
\* result is the order of the entries; their rendering as text is not
\* followed.
buildContext(recent, sections) ==
  [n \in 1..Len(sections) |-> [kind |-> "section", section |-> sections[n]]]
    \o [n \in 1..Len(recent) |->
          [kind |-> "message", message |-> chronological(recent)[n]]]

\* A message of the conversation is persisted (handleMessage, or a bot
\* message of generateAndSendResponse).
Deliver(chatId) ==
  /\ Len(messages) < MaxMsgs
  /\ saveMessage(FreshId, chatId, "x")
  /\ UNCHANGED <<summaries, inv, hist>>
  /\ UNCHANGED others

\* An ensureSummaries invocation of the conversation runs from its count to
\* its return without a failure and without another one interleaved.
EnsureSummaries(chatId) ==
  /\ ~(SummariesFor(chatId, countMessages(chatId)) \subseteq summaries)
  /\ summaries' = summaries \cup SummariesFor(chatId, countMessages(chatId))
  /\ UNCHANGED <<messages, inv, hist, settled, editLog>>
  /\ UNCHANGED others

\* MemoryModel.addMemory: insertOne; the text stands for the fact and is
\* the number of the insertion.
AddMemory(chatId) ==
  /\ Len(memories) < MaxMemories
  /\ memories' = Append(memories, [chatTelegramId |-> chatId,
                                   text |-> Len(memories) + 1])
  /\ UNCHANGED <<messages, summaries, inv, hist, settled, editLog,
                 outcome, gen, run, users, sent>>

\* const recentMessages = await messageModel.getRecentMessages(chatId, 200)
\* (the trigger message is stored: handleMessage saved it before).
GetRecentMessages(chatId) ==
  /\ gen.pc = "idle"
  /\ countMessages(chatId) > 0
  /\ gen' = [IdleGen EXCEPT !.pc = "memories", !.chatId = chatId,
                            !.recentMessages = getRecentMessages(chatId, W),
                            !.seen = countMessages(chatId)]
  /\ UNCHANGED <<messages, summaries, inv, hist, settled, editLog,
                 outcome, memories, run, users, sent>>

\* const memories = await memoryModel.listByChat(chatId, 100); the pinned
\* section is pushed.
ListMemories ==
  /\ gen.pc = "memories"
  /\ gen' = [gen EXCEPT !.pc = "summaries",
                        !.sections = memorySections(
                                       listByChat(gen.chatId, MemoryLimit))]
  /\ UNCHANGED <<messages, summaries, inv, hist, settled, editLog,
                 outcome, memories, run, users, sent>>

\* The probe of the highest level and the reads of levels maxLevel .. 1.
ReadSummaries ==
  /\ gen.pc = "summaries"
  /\ gen' = [gen EXCEPT !.pc = "count",
                        !.sections = @ \o higherSections(gen.chatId)]
  /\ UNCHANGED <<messages, summaries, inv, hist, settled, editLog,
                 outcome, memories, run, users, sent>>

\* const totalMessages = await messageModel.countMessages(chatId)
CountTotal ==
  /\ gen.pc = "count"
  /\ gen' = [gen EXCEPT !.pc = "level0",
                        !.totalMessages = countMessages(gen.chatId)]
  /\ UNCHANGED <<messages, summaries, inv, hist, settled, editLog,
                 outcome, memories, run, users, sent>>

\* const level0Summaries = await summaryModel.getByLevelAscending(chatId, 0)
\* and the loop that pushes the included blocks; the sections are returned.
ReadLevel0 ==
  /\ gen.pc = "level0"
  /\ gen' = [gen EXCEPT !.pc = "built",
                        !.sections = @ \o level0Sections(gen.totalMessages,
                                        getByLevelAscending(gen.chatId, 0))]
  /\ UNCHANGED <<messages, summaries, inv, hist, settled, editLog,
                 outcome, memories, run, users, sent>>

\* aiService.generateResponse(recentMessages, dbTriggerMessage, botUsername,
\* historicalSections); full is the router's provide_all_chat_history.
GenerateResponse(full) ==
  /\ gen.pc = "built"
  /\ gen' = [gen EXCEPT !.pc = "done", !.full = full]
  /\ UNCHANGED <<messages, summaries, inv, hist, settled, editLog,
                 outcome, memories, run, users, sent>>

\* The reply is sent and the invocation returns.
Return ==
  /\ gen.pc = "done"
  /\ gen' = IdleGen
  /\ UNCHANGED <<messages, summaries, inv, hist, settled, editLog,
                 outcome, memories, run, users, sent>>

NextContext ==
  \/ \E c \in RollupChats : Deliver(c)
  \/ \E c \in RollupChats : EnsureSummaries(c)
  \/ \E c \in Chats : AddMemory(c)
  \/ \E c \in RollupChats : GetRecentMessages(c)
  \/ ListMemories
  \/ ReadSummaries
  \/ CountTotal
  \/ ReadLevel0
  \/ \E full \in BOOLEAN : GenerateResponse(full)
  \/ Return

SpecContext == Init /\ [][NextContext]_vars

----------------------------------------------------------------------------
(* Trigger handling: handleMessage, generateAndSendResponse, generateResponse *)

\* Native message ids the transport hands out per conversation before it
\* stops delivering new messages there.
MaxSent == 3

\* Accounts that author messages; BotId is this.bot.botInfo.id.
BotId == "bot"

Authors == {"bot", "ann"}

\* The handler slot whose generateResponse call is followed, and the
\* conversation whose messages it handles.
Handlers == {1}

TriggerChats == {1}

\* Function names a completion can name in a tool call; the router is given
\* save_to_memory and generate_response, web_search is unknown to it.
ToolNames == {"save_to_memory", "generate_response", "web_search"}

\* The arguments string of a tool call, as the model wrote it.
RawArguments ==
  {"malformed", "null", "text:fact", "text: fact ", "text:  ", "history",
   "web"}

\* The value JSON.parse gives for the JSON text null.
Null == [null |-> TRUE]

\* JSON.parse(call.function?.arguments || '{}') inside try/catch: the parsed
\* value, {} for a string that does not parse.
parseArguments(raw) ==
  CASE raw = "null" -> Null
    [] raw = "text:fact" -> [text |-> "fact"]
    [] raw = "text: fact " -> [text |-> " fact "]
    [] raw = "text:  " -> [text |-> "  "]
    [] raw = "history" -> [provideAllChatHistory |-> TRUE]
    [] raw = "web" -> [enableWebAccess |-> TRUE]
    [] OTHER -> <<>>

\* String.prototype.trim on the texts a tool call can carry.
trim(t) ==
  CASE t = " fact " -> "fact"
    [] t = "  " -> ""
    [] t = " " -> ""
    [] OTHER -> t

\* String(args.text || '').trim()
argText(args) == IF "text" \in DOMAIN args THEN trim(args.text) ELSE ""

\* Boolean(args[flag])
argFlag(args, flag) == IF flag \in DOMAIN args THEN args[flag] ELSE FALSE

\* The tool calls followed: each function with the arguments that matter to
\* it.
ToolCalls ==
  {c \in [name : ToolNames, arguments : RawArguments] :
     CASE c.name = "save_to_memory" -> c.arguments \notin {"history", "web"}
       [] c.name = "generate_response" ->
            c.arguments \in {"malformed", "null", "history", "web"}
       [] OTHER -> c.arguments = "null"}

\* A second tool call of a completion that holds several.
SecondCall == [name |-> "save_to_memory", arguments |-> "text:fact"]

\* routerChoice?.tool_calls || []
RouterToolCalls ==
  {<<>>} \cup {<<c>> : c \in ToolCalls}
         \cup {<<c, SecondCall>> : c \in ToolCalls}

\* The decision before the router's answer is looked at.
DefaultDecision ==
  [decision |-> "generate_response", text |-> "",
   provideAllChatHistory |-> FALSE, enableWebAccess |-> FALSE]

\* The decision taken from the router's completion: only the first tool call
\* is looked at, an unknown name leaves the default.  Reading a property of
\* null (args.text, args.provideAllChatHistory) throws a TypeError.
route(routerToolCalls) ==
  IF Len(routerToolCalls) = 0
  THEN DefaultDecision
  ELSE LET call == routerToolCalls[1]
           args == parseArguments(call.arguments)
       IN  CASE call.name = "save_to_memory" ->
                  IF args = Null
                  THEN [DefaultDecision EXCEPT !.decision = "TypeError"]
                  ELSE [DefaultDecision EXCEPT !.decision = "save_to_memory",
                                               !.text = argText(args)]
             [] call.name = "generate_response" ->
                  IF args = Null
                  THEN [DefaultDecision EXCEPT !.decision = "TypeError"]
                  ELSE [DefaultDecision EXCEPT
                          !.provideAllChatHistory =
                             argFlag(args, "provideAllChatHistory"),
                          !.enableWebAccess = argFlag(args, "enableWebAccess")]
             [] OTHER -> DefaultDecision

\* shouldRespond: never for the bot's own messages, otherwise for a text
\* that holds @<botUsername> or a reply to a message of the bot.
shouldRespond(r) ==
  IF r.userTelegramId = BotId
  THEN FALSE
  ELSE r.mention \/ r.replyToBot

\* Variant of memoryDoc: the memory is attributed to the bot.
memoryDoc_bot(r) ==
  [chatTelegramId |-> r.chatId, addedByUserTelegramId |-> BotId,
   text |-> trim(r.text), sourceMessageTelegramId |-> r.telegramId]

\* The document addMemory inserts for the trigger of handler record r.
memoryDoc(r) ==
  [chatTelegramId |-> r.chatId, addedByUserTelegramId |-> r.userTelegramId,
   text |-> trim(r.text), sourceMessageTelegramId |-> r.telegramId]

\* Variant of onRollupFailure: the handler awaits the invocation, so its
\* rejection lands in the catch of the running handler.
onRollupFailure_await(r) ==
  IF r.pc = "idle" THEN r ELSE [r EXCEPT !.pc = "fallback"]

\* .catch((error) => logger.error(...)) on the un-awaited ensureSummaries
\* promise: the handler record is left as it is.
onRollupFailure(r) == r

\* The variables no handler of a new message touches.
engine == <<summaries, inv, hist, outcome, gen>>

\* The native id the transport gives the next message of the conversation.
NextNativeId(chatId) == sent[chatId] + 1

\* saveMessage inside a try/catch that logs the error: a duplicate key leaves
\* the collection as it is.
saveOrLog(telegramId, chatId, txt) ==
  IF DuplicateKey(NewMessage(telegramId, chatId, txt))
  THEN UNCHANGED <<messages, editLog, settled>>
  ELSE saveMessage(telegramId, chatId, txt)

\* bot.on('message') for a group or supergroup: handleMessage starts on a new
\* message of the conversation.
Receive(p, chatId, author, mention, replyToBot) ==
  /\ run[p].pc = "idle"
  /\ sent[chatId] < MaxSent
  /\ sent' = [sent EXCEPT ![chatId] = @ + 1]
  /\ run' = [run EXCEPT ![p] =
               [IdleRun EXCEPT !.pc = "find", !.chatId = chatId,
                               !.telegramId = NextNativeId(chatId),
                               !.userTelegramId = author,
                               !.mention = mention,
                               !.replyToBot = replyToBot]]
  /\ UNCHANGED <<messages, editLog, settled, memories, users>>
  /\ UNCHANGED engine

\* upsertUser, first await: findByTelegramId.
FindUser(p) ==
  /\ run[p].pc = "find"
  /\ run' = [run EXCEPT ![p].pc = "upsert",
                        ![p].existingUser = (run[p].userTelegramId \in users)]
  /\ UNCHANGED <<messages, editLog, settled, memories, users, sent>>
  /\ UNCHANGED engine

\* upsertUser, second await: an existing user is updated in place, a new one
\* is inserted; the unique index on telegramId rejects a second insert and
\* the error ends handleMessage in the catch of the event handler.
UpsertUser(p) ==
  /\ run[p].pc = "upsert"
  /\ IF ~run[p].existingUser /\ run[p].userTelegramId \in users
     THEN /\ run' = [run EXCEPT ![p].pc = "idle", ![p].result = "aborted"]
          /\ UNCHANGED users
     ELSE /\ run' = [run EXCEPT ![p].pc = "save"]
          /\ users' = users \cup {run[p].userTelegramId}
  /\ UNCHANGED <<messages, editLog, settled, memories, sent>>
  /\ UNCHANGED engine

\* Variant of PersistTrigger: a duplicate key is taken for success and the
\* handler goes on to shouldRespond.
PersistTrigger_ignore(p) ==
  LET r == run[p]
  IN  /\ r.pc = "save"
      /\ saveOrLog(r.telegramId, r.chatId, "x")
      /\ run' = [run EXCEPT ![p] =
                   IF shouldRespond(r)
                   THEN [r EXCEPT !.pc = "respond", !.rollup = "pending"]
                   ELSE [r EXCEPT !.pc = "idle", !.rollup = "pending",
                                  !.result = "stored"]]
      /\ UNCHANGED <<memories, users, sent>>
      /\ UNCHANGED engine

\* handleMessage from saveMessage on: a duplicate key ends the handler in the
\* catch of the event handler; otherwise ensureSummaries is started without
\* being awaited and shouldRespond decides whether a reply is generated.
PersistTrigger(p) ==
  LET r == run[p]
  IN  /\ r.pc = "save"
      /\ IF DuplicateKey(NewMessage(r.telegramId, r.chatId, "x"))
         THEN /\ run' = [run EXCEPT ![p].pc = "idle", ![p].result = "aborted"]
              /\ UNCHANGED <<messages, editLog, settled>>
         ELSE /\ saveMessage(r.telegramId, r.chatId, "x")
              /\ run' = [run EXCEPT ![p] =
                           IF shouldRespond(r)
                           THEN [r EXCEPT !.pc = "respond",
                                          !.rollup = "pending"]
                           ELSE [r EXCEPT !.pc = "idle",
                                          !.rollup = "pending",
                                          !.result = "stored"]]
      /\ UNCHANGED <<memories, users, sent>>
      /\ UNCHANGED engine

\* generateAndSendResponse up to the generateResponse call: the raw window is
\* read and the trigger is looked up; without the trigger nothing is sent.
StartResponse(p) ==
  LET r == run[p]
  IN  /\ r.pc = "respond"
      /\ run' = [run EXCEPT ![p] =
                   IF Len(findByMessageTelegramId(r.telegramId, r.chatId)) = 0
                   THEN [r EXCEPT !.pc = "idle", !.result = "silent"]
                   ELSE [r EXCEPT !.pc = "router"]]
      /\ UNCHANGED <<messages, editLog, settled, memories, users, sent>>
      /\ UNCHANGED engine

\* The router completion returns and the decision is taken from it; an error
\* thrown on the way lands in the catch of generateResponse, which rethrows.
RouterCall(p, routerToolCalls) ==
  LET r == run[p]
      d == route(routerToolCalls)
  IN  /\ r.pc = "router"
      /\ run' = [run EXCEPT ![p] =
                   [r EXCEPT !.pc = CASE d.decision = "save_to_memory" ->
                                           "remember"
                                      [] d.decision = "generate_response" ->
                                           "generate"
                                      [] OTHER -> "fallback",
                             !.decision = d.decision,
                             !.text = d.text,
                             !.provideAllChatHistory = d.provideAllChatHistory,
                             !.enableWebAccess = d.enableWebAccess,
                             !.routed = routerToolCalls,
                             !.calls = IF d.decision = "TypeError"
                                       THEN @ \o <<"router", "throw">>
                                       ELSE Append(@, "router")]]
      /\ UNCHANGED <<messages, editLog, settled, memories, users, sent>>
      /\ UNCHANGED engine

\* The router completion rejects: the catch of generateResponse rethrows.
RouterFail(p) ==
  /\ run[p].pc = "router"
  /\ run' = [run EXCEPT ![p].pc = "fallback",
                        ![p].calls = @ \o <<"router", "throw">>]
  /\ UNCHANGED <<messages, editLog, settled, memories, users, sent>>
  /\ UNCHANGED engine

\* The save_to_memory branch before its completion: a non-empty text is
\* stored with addMemory and the tool is recorded as used.
Remember(p) ==
  LET r == run[p]
  IN  /\ r.pc = "remember"
      /\ IF trim(r.text) # ""
         THEN /\ memories' = Append(memories, memoryDoc(r))
              /\ run' = [run EXCEPT ![p].pc = "final",
                                    ![p].toolsUsed = <<"save_to_memory">>,
                                    ![p].calls = Append(@, "addMemory")]
         ELSE /\ run' = [run EXCEPT ![p].pc = "final"]
              /\ UNCHANGED memories
      /\ UNCHANGED <<messages, editLog, settled, users, sent>>
      /\ UNCHANGED engine

\* What a generation completion can hold: its content, and whether it names
\* save_to_memory in a tool call.
Completions == [content : {"", " ", "text"}, toolCall : BOOLEAN]

\* Variant of afterCompletion: empty content asks the router again, once.
afterCompletion_retry(r, res) ==
  IF trim(res.content) = ""
  THEN IF Len(r.calls) < 4 THEN "router" ELSE "fallback"
  ELSE IF Len(r.toolsUsed) > 0 THEN "notice" ELSE "reply"

\* Where generateResponse and its caller go with a completion: content that
\* is empty once trimmed throws into the catch, otherwise the reply is sent,
\* after the technical message when a tool was used.  Tool calls of the
\* completion are not read.
afterCompletion(r, res) ==
  IF trim(res.content) = ""
  THEN "fallback"
  ELSE IF Len(r.toolsUsed) > 0 THEN "notice" ELSE "reply"

\* The completion of either branch returns: its content is the reply, empty
\* content throws.  Summaries are handed to buildContext only by the
\* generate_response branch with provideAllChatHistory.
Completion(p, res) ==
  LET r == run[p]
  IN  /\ r.pc \in {"final", "generate"}
      /\ run' = [run EXCEPT ![p] =
                   [r EXCEPT !.pc = afterCompletion(r, res),
                             !.full = (r.pc = "generate"
                                         /\ r.provideAllChatHistory),
                             !.requested = res.toolCall,
                             !.calls = IF afterCompletion(r, res) = "fallback"
                                       THEN @ \o <<"generation", "throw">>
                                       ELSE Append(@, "generation")]]
      /\ UNCHANGED <<messages, editLog, settled, memories, users, sent>>
      /\ UNCHANGED engine

\* The completion of either branch rejects.
CompletionFail(p) ==
  /\ run[p].pc \in {"final", "generate"}
  /\ run' = [run EXCEPT ![p].pc = "fallback",
                        ![p].calls = @ \o <<"generation", "throw">>]
  /\ UNCHANGED <<messages, editLog, settled, memories, users, sent>>
  /\ UNCHANGED engine

\* The technical message for the tools used is sent and saved; errors are
\* logged.
SendNotice(p) ==
  LET r == run[p]
  IN  /\ r.pc = "notice"
      /\ sent' = [sent EXCEPT ![r.chatId] = @ + 1]
      /\ saveOrLog(NextNativeId(r.chatId), r.chatId, "notice")
      /\ run' = [run EXCEPT ![p].pc = "reply",
                            ![p].calls = Append(@, "notice")]
      /\ UNCHANGED <<memories, users>>
      /\ UNCHANGED engine

\* The reply is sent and saved, and ensureSummaries is started again without
\* being awaited; a duplicate key of the save lands in the catch.
SendReply(p) ==
  LET r == run[p]
      id == NextNativeId(r.chatId)
  IN  /\ r.pc = "reply"
      /\ sent' = [sent EXCEPT ![r.chatId] = @ + 1]
      /\ IF DuplicateKey(NewMessage(id, r.chatId, "reply"))
         THEN /\ run' = [run EXCEPT ![p].pc = "fallback",
                                    ![p].calls = @ \o <<"reply", "throw">>]
              /\ UNCHANGED <<messages, editLog, settled>>
         ELSE /\ saveMessage(id, r.chatId, "reply")
              /\ run' = [run EXCEPT ![p].pc = "idle",
                                    ![p].result = "replied",
                                    ![p].calls = Append(@, "reply")]
      /\ UNCHANGED <<memories, users>>
      /\ UNCHANGED engine

\* catch of generateAndSendResponse: the apology is sent and saved; an error
\* of either is logged.
Fallback(p) ==
  LET r == run[p]
  IN  /\ r.pc = "fallback"
      /\ sent' = [sent EXCEPT ![r.chatId] = @ + 1]
      /\ saveOrLog(NextNativeId(r.chatId), r.chatId, "fallback")
      /\ run' = [run EXCEPT ![p].pc = "idle",
                            ![p].result = "fallback",
                            ![p].calls = Append(@, "fallback")]
      /\ UNCHANGED <<memories, users>>
      /\ UNCHANGED engine

\* The ensureSummaries invocation the handler started settles: it returns,
\* or it rejects and the rejection is logged.
RollupSettle(p, res) ==
  /\ run[p].rollup = "pending"
  /\ run' = [run EXCEPT ![p] =
               IF res = "failed"
               THEN onRollupFailure([@ EXCEPT !.rollup = "failed"])
               ELSE [@ EXCEPT !.rollup = "done"]]
  /\ UNCHANGED <<messages, editLog, settled, memories, users, sent>>
  /\ UNCHANGED engine

\* handleMessage of a message of another conversation that asks for no
\* reply, run by another handler slot from its first to its last step;
\* a duplicate key ends it in the catch of the event handler.
HandleSilent(chatId, author) ==
  /\ sent[chatId] < MaxSent
  /\ sent' = [sent EXCEPT ![chatId] = @ + 1]
  /\ users' = users \cup {author}
  /\ saveOrLog(NextNativeId(chatId), chatId, "x")
  /\ UNCHANGED <<memories, run>>
  /\ UNCHANGED engine

NextTrigger ==
  \/ \E p \in Handlers, c \in TriggerChats, a \in Authors, m, b \in BOOLEAN :
       Receive(p, c, a, m, b)
  \/ \E p \in Handlers : FindUser(p)
  \/ \E p \in Handlers : UpsertUser(p)
  \/ \E p \in Handlers : PersistTrigger(p)
  \/ \E p \in Handlers : StartResponse(p)
  \/ \E p \in Handlers, t \in RouterToolCalls : RouterCall(p, t)
  \/ \E p \in Handlers : RouterFail(p)
  \/ \E p \in Handlers : Remember(p)
  \/ \E p \in Handlers, res \in Completions : Completion(p, res)
  \/ \E p \in Handlers : CompletionFail(p)
  \/ \E p \in Handlers : SendNotice(p)
  \/ \E p \in Handlers : SendReply(p)
  \/ \E p \in Handlers : Fallback(p)
  \/ \E p \in Handlers, res \in {"done", "failed"} : RollupSettle(p, res)
  \/ \E c \in Chats \ TriggerChats : HandleSilent(c, "ann")

SpecTrigger == Init /\ [][NextTrigger]_vars

(***************************************************************************)
(* Redelivered messages: the transport hands bot.on('message') an update   *)
(* whose message is stored already.                                        *)
(***************************************************************************)

\* bot.on('message') for a message of the conversation that is stored:
\* handleMessage starts on it as on any other.
Redeliver(p, chatId, telegramId, author, mention, replyToBot) ==
  /\ run[p].pc = "idle"
  /\ Len(findByMessageTelegramId(telegramId, chatId)) > 0
  /\ run' = [run EXCEPT ![p] =
               [IdleRun EXCEPT !.pc = "find", !.chatId = chatId,
                               !.telegramId = telegramId,
                               !.userTelegramId = author,
                               !.mention = mention,
                               !.replyToBot = replyToBot,
                               !.redelivered = TRUE]]
  /\ UNCHANGED <<messages, editLog, settled, memories, users, sent>>
  /\ UNCHANGED engine

\* The router selects no tool here: generate_response with its defaults.
NextRedelivery ==
  \/ \E p \in Handlers, c \in TriggerChats, a \in Authors, m, b \in BOOLEAN :
       Receive(p, c, a, m, b)
  \/ \E p \in Handlers, c \in TriggerChats, id \in 1..MaxSent,
        a \in Authors, m, b \in BOOLEAN :
       Redeliver(p, c, id, a, m, b)
  \/ \E p \in Handlers : FindUser(p)
  \/ \E p \in Handlers : UpsertUser(p)
  \/ \E p \in Handlers : PersistTrigger(p)
  \/ \E p \in Handlers : StartResponse(p)
  \/ \E p \in Handlers : RouterCall(p, <<>>)
  \/ \E p \in Handlers : RouterFail(p)
  \/ \E p \in Handlers, res \in Completions : Completion(p, res)
  \/ \E p \in Handlers : CompletionFail(p)
  \/ \E p \in Handlers : SendReply(p)
  \/ \E p \in Handlers : Fallback(p)
  \/ \E p \in Handlers, res \in {"done", "failed"} : RollupSettle(p, res)

SpecRedelivery == Init /\ [][NextRedelivery]_vars

----------------------------------------------------------------------------
(* Concurrent handlers: handleMessage in two slots, editMessage in two slots *)

\* Messages of the followed conversation that ask for no reply are handled
\* in both slots, interleaved at every await.
NextHandlers ==
  \/ \E p \in Procs, c \in TriggerChats, a \in Authors \ {BotId} :
       Receive(p, c, a, FALSE, FALSE)
  \/ \E p \in Procs : FindUser(p)
  \/ \E p \in Procs : UpsertUser(p)
  \/ \E p \in Procs : PersistTrigger(p)

SpecHandlers == Init /\ [][NextHandlers]_vars

\* editMessage up to its first await: the message is read and the version
\* of the new edit computed from the edits it holds.
EditRead(p, messageId, chatId, newText) ==
  LET found == findByMessageTelegramId(messageId, chatId)
  IN  /\ run[p].pc = "idle"
      /\ Len(found) > 0
      /\ Len(editLog[<<chatId, messageId>>]) < MaxEdits
      /\ run' = [run EXCEPT ![p] =
                   [IdleRun EXCEPT !.pc = "edit", !.chatId = chatId,
                                   !.telegramId = messageId,
                                   !.text = found[1].text,
                                   !.newText = newText,
                                   !.newVersion = editEntry(found[1]).version]]
      /\ UNCHANGED <<messages, editLog, settled, memories, users, sent>>
      /\ UNCHANGED engine

\* editMessage from updateOne on; the call returns normally.  The result
\* records whether the other slot had read the same message and not yet
\* written.
EditWrite(p) ==
  LET r == run[p]
      raced == \E q \in Procs \ {p} :
                 /\ run[q].pc = "edit"
                 /\ run[q].chatId = r.chatId
                 /\ run[q].telegramId = r.telegramId
  IN  /\ r.pc = "edit"
      /\ messages' = updateOneEdit(EditFilter(r.telegramId, r.chatId),
                                   r.newText,
                                   [text |-> r.text, version |-> r.newVersion])
      /\ editLog' = [editLog EXCEPT ![<<r.chatId, r.telegramId>>] =
                                      Append(@, r.newText)]
      /\ run' = [run EXCEPT ![p].pc = "idle",
                            ![p].result = IF raced THEN "raced" ELSE "edited"]
      /\ UNCHANGED <<settled, memories, users, sent>>
      /\ UNCHANGED engine

NextEdits ==
  \/ \E id \in 1..MaxId, c \in TriggerChats : SaveMessage(id, c, "x")
  \/ \E p \in Procs, id \in 1..MaxId, c \in TriggerChats, t \in MsgTexts :
       EditRead(p, id, c, t)
  \/ \E p \in Procs : EditWrite(p)

SpecEdits == Init /\ [][NextEdits]_vars

(***************************************************************************)
(* Two updateReactions calls in flight.  updateReactions awaits the        *)
(* populated read of the message, computes the new array from what it     *)
(* read and then awaits updateOne: another handler can run between the    *)
(* two awaits.                                                             *)
(***************************************************************************)

\* Native ids of the messages reacted to.
ReactIds == {1}

\* updateReactions up to its first await: findByMessageTelegramId, the
\* filter over the reactions read and the map over addedReactions.
ReactRead(p, telegramId, chatId, userTelegramId, addedReactions, removed) ==
  LET found == findByMessageTelegramId(telegramId, chatId)
      updatedReactions ==
        keptReactions(populateReactions(found[1].reactions), userTelegramId,
                      removed)
          \o newReactions(userTelegramId, addedReactions)
  IN  /\ run[p].pc = "idle"
      /\ Len(found) > 0
      /\ Len(updatedReactions) <= MaxReactions
      /\ run' = [run EXCEPT ![p] =
                   [IdleRun EXCEPT !.pc = "react", !.chatId = chatId,
                                   !.telegramId = telegramId,
                                   !.reactor = userTelegramId,
                                   !.added = addedReactions,
                                   !.removed = removed,
                                   !.updatedReactions = updatedReactions]]
      /\ UNCHANGED <<messages, editLog, settled, memories, users, sent>>
      /\ UNCHANGED engine

\* updateReactions from its second await: updateOne with $set of the array
\* computed from the earlier read.  result records how the call
\* interleaved with a call of another author on the same message: "raced"
\* when it wrote between the other's read and write, "late" when it wrote
\* after such a write.
ReactWrite(p) ==
  LET r == run[p]
      same(q) == /\ run[q].chatId = r.chatId
                 /\ run[q].telegramId = r.telegramId
                 /\ run[q].reactor # r.reactor
      raced == \E q \in Procs \ {p} : run[q].pc = "react" /\ same(q)
      late == \E q \in Procs \ {p} :
                run[q].pc = "idle" /\ run[q].result = "raced" /\ same(q)
  IN  /\ r.pc = "react"
      /\ messages' = updateOneReactions(r.telegramId, r.chatId,
                                        r.updatedReactions)
      /\ run' = [run EXCEPT ![p] =
                   IF raced \/ late
                   THEN [r EXCEPT !.pc = "idle", !.updatedReactions = <<>>,
                                  !.result = IF raced THEN "raced" ELSE "late"]
                   ELSE [IdleRun EXCEPT !.result = "reacted"]]
      /\ UNCHANGED <<editLog, settled, memories, users, sent>>
      /\ UNCHANGED engine

NextReactions ==
  \/ \E id \in ReactIds, c \in TriggerChats : SaveMessage(id, c, "x")
  \/ \E p \in Procs, id \in ReactIds, c \in TriggerChats, u \in Users,
        a \in ReactionLists, d \in ReactionLists :
        ReactRead(p, id, c, u, a, d)
  \/ \E p \in Procs : ReactWrite(p)

SpecReactions == Init /\ [][NextReactions]_vars

(***************************************************************************)
(* The operations of one conversation next to the data of another:         *)
(* saveMessage with ensureSummaries, editMessage, updateReactions and     *)
(* addMemory, for either conversation.                                     *)
(***************************************************************************)

\* One step for the conversation: handleMessage saves a message and starts
\* ensureSummaries, an ensureSummaries invocation takes a step, addMemory
\* while no memory is stored, editMessage of a message that has not been
\* edited, or updateReactions adding an emoji to a message without
\* reactions or removing it from one that has it.
OperationOn(chatId) ==
  \/ HandleLate(chatId, Len(messages) + 1)
  \/ \E p \in Procs : inv[p].chatId = chatId /\ Step(p)
  \/ memories = <<>> /\ AddMemory(chatId)
  \/ \E id \in ReactIds :
       /\ EditMessage(id, chatId, "y")
       /\ editLog[<<chatId, id>>] = <<>>
  \/ \E id \in ReactIds, u \in Profiles :
       LET k == CHOOSE x \in ReactionKeys : TRUE
           stored == findByMessageTelegramId(id, chatId)[1].reactions
       IN  \/ UpdateReactions(id, chatId, u, <<k>>, <<>>) /\ stored = <<>>
           \/ UpdateReactions(id, chatId, u, <<>>, <<k>>) /\ stored # <<>>

NextFrame == \E c \in Chats : OperationOn(c)

SpecFrame == Init /\ [][NextFrame]_vars

----------------------------------------------------------------------------
(* Properties of the rollup engine *)

Done(p) == inv[p].pc = "done" /\ ~inv[p].failed

\* The levels that hold a Summary of the conversation, and the one above.
LevelsOf(chatId) ==
  {0} \cup {s.level + 1 : s \in {t \in summaries : t.chatTelegramId = chatId}}

IndicesAt(chatId, lvl) == {s.index : s \in AtLevel(chatId, lvl)}

\* Blocks of a level that the stored messages support.
RECURSIVE Due(_, _)
Due(chatId, lvl) ==
  IF lvl = 0 THEN countMessages(chatId) \div K
  ELSE Due(chatId, lvl - 1) \div K

HigherLevelsConsistent(chatId) ==
  \A lvl \in LevelsOf(chatId) \ {0} :
    getCount(chatId, lvl) = getCount(chatId, lvl - 1) \div K

\* C1: when an invocation has completed with every summarization call
\* succeeding and no message saved to its conversation since it counted the
\* messages, the conversation has exactly floor(N/K) level-0 Summaries.
C1_Level0Count ==
  \A p \in Procs :
    (Done(p) /\ hist[p].clean) =>
      getCount(inv[p].chatId, 0) = countMessages(inv[p].chatId) \div K

\* N = 2K+1 messages, a completed invocation, exactly indices 0 and 1.
C1_Witness ==
  \E p \in Procs :
    /\ Done(p) /\ hist[p].clean /\ hist[p].wrote
    /\ countMessages(inv[p].chatId) = 2 * K + 1
    /\ IndicesAt(inv[p].chatId, 0) = {0, 1}

\* C2 as stated: at the completion of every invocation that did not fail,
\* every level L >= 1 holds floor(M/K) Summaries, M the count of level L-1.
C2_Original ==
  [][\A p \in Procs :
       (inv[p].pc = "fin" /\ inv'[p].pc = "done") =>
         HigherLevelsConsistent(inv[p].chatId)]_vars

\* C2 amended: the same, for invocations during which no message was saved
\* to the conversation (a concurrent invocation that saw more messages may
\* still be filling the lower level).
C2_HigherLevelCounts ==
  \A p \in Procs :
    (Done(p) /\ hist[p].clean) => HigherLevelsConsistent(inv[p].chatId)

\* K^3 messages: K^2 level-0, K level-1 and one level-2 Summary, none above.
C2_Witness ==
  \E p \in Procs :
    /\ Done(p) /\ hist[p].clean
    /\ getCount(inv[p].chatId, 0) = K * K
    /\ getCount(inv[p].chatId, 1) = K
    /\ getCount(inv[p].chatId, 2) = 1
    /\ getCount(inv[p].chatId, 3) = 0

\* C3: in every reachable state the indices of the Summaries of each level
\* of each conversation are exactly 0..n-1.
C3_Contiguous ==
  \A c \in Chats : \A lvl \in LevelsOf(c) :
    IndicesAt(c, lvl) = 0..(getCount(c, lvl) - 1)

\* Several Summaries on two levels while a summarization call has failed and
\* another invocation is in the middle of a block.
C3_Witness ==
  \E p, q \in Procs :
    /\ inv[p].pc = "done" /\ inv[p].failed
    /\ inv[q].pc = "ups"
    /\ getCount(inv[q].chatId, 0) >= 3
    /\ getCount(inv[q].chatId, 1) >= 1

\* C4: an invocation that starts on a conversation left caught up by a
\* completed invocation, with no message saved and no Summary written by
\* anyone else since, issues no summarization call and writes no Summary.
C4_Idempotent ==
  \A p \in Procs :
    (inv[p].pc \notin {"idle", "count"} /\ hist[p].quiet) =>
      (~hist[p].called /\ ~hist[p].wrote)

\* A redundant invocation has run to completion over existing Summaries.
C4_Witness ==
  \E p \in Procs :
    /\ Done(p) /\ hist[p].quiet
    /\ getCount(inv[p].chatId, 0) >= 2
    /\ getCount(inv[p].chatId, 1) >= 1

\* C5: a Summary is write-once: once a (conversation, level, index) key
\* exists, its text and covered time range never change.
C5_WriteOnce ==
  [][\A s \in summaries :
       \E t \in summaries' :
         /\ SummaryKey(t) = SummaryKey(s)
         /\ t.summary = s.summary
         /\ t.startSentAt = s.startSentAt
         /\ t.endSentAt = s.endSentAt]_vars

\* C6: no two Summaries ever share a key, and when two invocations of one
\* conversation have both completed, with no message saved since the later
\* of them counted, every level holds exactly the blocks a single invocation
\* produces from the stored messages, one Summary each.
C6_ConcurrentWriters ==
  /\ \A s, t \in summaries : SummaryKey(s) = SummaryKey(t) => s = t
  /\ \A p, q \in Procs :
       (/\ p # q /\ inv[p].chatId = inv[q].chatId
        /\ Done(p) /\ Done(q) /\ hist[p].clean) =>
         \A lvl \in LevelsOf(inv[p].chatId) :
           /\ IndicesAt(inv[p].chatId, lvl) = 0..(Due(inv[p].chatId, lvl) - 1)
           /\ getCount(inv[p].chatId, lvl) = Due(inv[p].chatId, lvl)

\* Both invocations have completed and one of them wrote a key the other had
\* already written.
C6_Witness ==
  \E p, q \in Procs :
    /\ p # q /\ inv[p].chatId = inv[q].chatId
    /\ Done(p) /\ Done(q) /\ hist[p].clean /\ hist[q].clean
    /\ hist[p].wrote /\ hist[q].overwrote
    /\ getCount(inv[p].chatId, 0) >= 1

\* C7: no summarization call is issued for a block whose Summary exists at
\* the moment of the call.
C7_NoResummarize ==
  [][\A p \in Procs :
       (inv[p].pc = "read" /\ inv'[p].pc = "sum") =>
         ~exists(inv[p].chatId, inv[p].level, inv[p].i)]_vars

\* C8: every Summary was produced from exactly K consecutive entries of the
\* level below: level 0 from K consecutive messages, level L > 0 from the
\* level-(L-1) Summaries of indices index*K .. index*K+K-1.
C8_FullBlocks ==
  \A s \in summaries :
    /\ Len(s.src) = K
    /\ IF s.level = 0
       THEN \E off \in 0..(countMessages(s.chatTelegramId) - K) :
              \A n \in 1..K :
                ChatMessages(s.chatTelegramId)[off + n].telegramId = s.src[n]
       ELSE \A n \in 1..K : s.src[n] = s.index * K + n - 1

\* A level-1 Summary exists while the newest messages form a partial block.
C8_Witness ==
  \E s \in summaries :
    /\ s.level = 1
    /\ countMessages(s.chatTelegramId) % K # 0
    /\ getCount(s.chatTelegramId, 0) = countMessages(s.chatTelegramId) \div K

\* C9: a failing summarization call ends the invocation without any Summary
\* write, and a summarization call for block i of a level is only issued
\* when every block below i of that level exists, so the failed block is
\* attempted again before any later block.
C9_FailedBlockRetried ==
  [][\A p \in Procs :
       /\ (inv[p].pc = "sum" /\ inv'[p].pc = "done") =>
            (summaries' = summaries /\ inv'[p].failed)
       /\ (inv[p].pc = "read" /\ inv'[p].pc = "sum") =>
            \A j \in 0..(inv[p].i - 1) :
              exists(inv[p].chatId, inv[p].level, j)]_vars

\* The block on which one invocation failed is still missing and another
\* invocation has just summarized it.
C9_Witness ==
  \E p, q \in Procs :
    /\ inv[p].pc = "done" /\ inv[p].failed
    /\ inv[q].pc = "ups"
    /\ CurKey(q) = CurKey(p)
    /\ ~exists(inv[p].chatId, inv[p].level, inv[p].i)

----------------------------------------------------------------------------
(* Properties of the message store *)

\* C10: after E editMessage calls that returned normally, the message has E
\* edits with versions 1..E in order and its text is the newText of the last
\* call.
C10_EditHistory ==
  \A n \in 1..Len(messages) :
    LET m == messages[n]
        log == editLog[<<m.chatTelegramId, m.telegramId>>]
    IN  /\ Len(m.edits) = Len(log)
        /\ \A v \in 1..Len(m.edits) : m.edits[v].version = v
        /\ Len(log) > 0 => m.text = log[Len(log)]

\* C11: every editMessage call on a stored message appends exactly one Edit
\* to it, and the text of that Edit is the text the message had immediately
\* before the call (also when newText equals that text).
C11_OneEditPerCall ==
  [][\A id \in 1..MaxId, c \in Chats, t \in MsgTexts :
       EditMessage(id, c, t) =>
         LET before == findByMessageTelegramId(id, c)[1]
             after == findByMessageTelegramId(id, c)[1]'
         IN  /\ Len(after.edits) = Len(before.edits) + 1
             /\ after.edits[Len(after.edits)].text = before.text]_vars

\* The reaction keys an author has on a message.
AuthorKeys(reactions, userTelegramId) ==
  {[emoji |-> reactions[n].emoji, customEmojiId |-> reactions[n].customEmojiId] :
     n \in {k \in 1..Len(reactions) :
              reactions[k].userTelegramId = userTelegramId}}

KeySet(list) == {list[n] : n \in 1..Len(list)}

\* The Reactions of the other authors: author and key of each, in order.
OtherReactions(reactions, userTelegramId) ==
  LET others_ == SelectSeq(reactions,
                   LAMBDA r : r.userTelegramId # userTelegramId)
  IN  [n \in 1..Len(others_) |->
         [userTelegramId |-> others_[n].userTelegramId,
          emoji |-> others_[n].emoji,
          customEmojiId |-> others_[n].customEmojiId]]

\* The documents of a (conversation, native id) pair in a collection state.
Find(msgs, chatId, telegramId) ==
  SelectSeq(msgs, LAMBDA m :
    m.telegramId = telegramId /\ m.chatTelegramId = chatId)

Stored(chatId, telegramId) ==
  \E n \in 1..Len(messages) :
    messages[n].telegramId = telegramId /\ messages[n].chatTelegramId = chatId

\* The step is a successful updateReactions call (its arguments are in
\* outcome').
ReactionStep == outcome'.op = "updateReactions" /\ outcome'.error = "none"

\* C12: updateReactions on a stored message leaves the author's reaction
\* keys on it equal to (the author's previous keys minus removedReactions)
\* union addedReactions.
C12_ReconcileReactions ==
  [][ReactionStep =>
       LET o == outcome'
           before == Find(messages, o.chatTelegramId, o.telegramId)[1]
           after == Find(messages', o.chatTelegramId, o.telegramId)[1]
       IN  AuthorKeys(after.reactions, o.userTelegramId) =
             (AuthorKeys(before.reactions, o.userTelegramId)
                \ KeySet(o.removed)) \cup KeySet(o.added)]_vars

\* An author holds two keys on one message after reaction events, the last
\* of which removed one key and added another.
C12_Witness ==
  /\ outcome.op = "updateReactions" /\ outcome.error = "none"
  /\ Len(outcome.added) = 1 /\ Len(outcome.removed) = 1
  /\ \E n \in 1..Len(messages) :
       Cardinality(AuthorKeys(messages[n].reactions,
                              outcome.userTelegramId)) = 2

C14_SaveOutcome ==
  [][outcome'.op = "saveMessage" =>
       LET o == outcome'
       IN  IF ~Stored(o.chatTelegramId, o.telegramId)
           THEN LET saved == Find(messages', o.chatTelegramId, o.telegramId)
                IN  /\ o.error = "none"
                    /\ Len(messages') = Len(messages) + 1
                    /\ Len(saved) = 1
                    /\ saved[1].edits = <<>>
                    /\ saved[1].reactions = <<>>
           ELSE /\ o.error = "DuplicateKey"
                /\ messages' = messages]_vars

\* C15: editMessage and updateReactions for a (conversation, native id)
\* pair that is not stored fail with NotFound and change no message; the
\* handler records the error and the store goes on serving events.
C15_NotFound ==
  [][(/\ outcome'.op \in {"editMessage", "updateReactions"}
      /\ ~Stored(outcome'.chatTelegramId, outcome'.telegramId)) =>
       /\ outcome'.error = "NotFound"
       /\ messages' = messages]_vars

\* An operation on an unknown message failed while messages with reactions
\* are stored.
C15_Witness ==
  /\ outcome.error = "NotFound"
  /\ Len(messages) > 0
  /\ TotalReactions > 0

----------------------------------------------------------------------------
(* Properties of context assembly *)

\* In the rollup specification, once an invocation has returned with no
\* message saved since its count, the Summaries are those of SummariesFor up
\* to the summary text.
SummariesForAgrees ==
  LET SummaryRange(S) ==
        {[level |-> x.level, index |-> x.index,
          startSentAt |-> x.startSentAt, endSentAt |-> x.endSentAt,
          src |-> x.src] : x \in S}
  IN  \A c \in RollupChats :
        settled[c] =>
          SummaryRange(summaries)
            = SummaryRange(SummariesFor(c, countMessages(c)))

\* The native ids of the messages a level-0 Summary covers.
Block0Range(chatId, index) ==
  LET d == CHOOSE x \in summaries : SummaryKey(x) = <<chatId, 0, index>>
  IN  d.startSentAt..d.endSentAt

\* The indices of the level-0 Summaries included in a list of sections.
IncludedLevel0(sections) ==
  {sections[n].index :
     n \in {k \in 1..Len(sections) :
              sections[k].kind = "summary" /\ sections[k].level = 0}}

\* The native ids of the messages of a raw window.
WindowIds(recent) == {recent[n].telegramId : n \in 1..Len(recent)}

\* C16: in an assembled context no message is both in the raw window and in
\* the range of an included level-0 Summary, also when messages are saved
\* between the read of the raw window and the read of the message count.
C16_NoOverlap ==
  gen.pc \in {"built", "done"} =>
    \A i \in IncludedLevel0(gen.sections) :
      Block0Range(gen.chatId, i) \cap WindowIds(gen.recentMessages) = {}

\* C17: when the rollups are caught up and no message arrives during the
\* assembly, every message of the conversation is in the raw window or in
\* the range of an included level-0 Summary.
C17_NoGap ==
  [][(/\ gen.pc = "level0" /\ gen'.pc = "built"
      /\ gen.seen = gen.totalMessages
      /\ gen.totalMessages = countMessages(gen.chatId)
      /\ SummariesFor(gen.chatId, gen.totalMessages) \subseteq summaries) =>
       \A n \in 1..gen.totalMessages :
         LET id == ChatMessages(gen.chatId)[n].telegramId
         IN  \/ id \in WindowIds(gen.recentMessages)
             \/ \E i \in IncludedLevel0(gen'.sections) :
                  id \in Block0Range(gen.chatId, i)]_vars

\* C18: the raw window of an invocation has min(W, total) messages, the most
\* recent ones at its read, oldest first, and each is numbered by its
\* distance from the most recent one, which has number 1.
C18_RawWindow ==
  gen.pc # "idle" =>
    LET c == chronological(gen.recentMessages)
        all == ChatMessages(gen.chatId)
    IN  /\ Len(c) = Min(W, gen.seen)
        /\ \A n \in 1..Len(c) :
             /\ c[n].telegramId = all[gen.seen - Len(c) + n].telegramId
             /\ c[n].label = Len(c) - n + 1

\* A generation call whose raw window is full while older messages exist.
C18_Witness ==
  /\ gen.pc = "done"
  /\ Len(gen.recentMessages) = W
  /\ gen.seen > W

\* sections a and b may follow each other in this order.
InOrder(a, b) ==
  /\ b.kind # "memory"
  /\ \/ a.kind = "memory"
     \/ a.level > b.level
     \/ a.level = b.level /\ a.index < b.index

\* The highest level of the conversation that has a Summary (-1: none).
HighestLevel(chatId) ==
  IF \E x \in summaries : x.chatTelegramId = chatId
  THEN CHOOSE l \in 0..MaxMsgs :
         /\ AtLevel(chatId, l) # {}
         /\ \A h \in 0..MaxMsgs : AtLevel(chatId, h) # {} => h <= l
  ELSE -1

\* C19: the context is ordered: the pinned section, the Summaries of levels
\* Lmax .. 1 (ascending index inside a level), the included level-0
\* Summaries by ascending index, the raw window; Lmax is the highest level
\* that has a Summary when the levels are read.
C19_ContextOrder ==
  [][/\ gen'.pc = "built" =>
          LET cx == buildContext(gen'.recentMessages, gen'.sections)
          IN  \A i \in 1..Len(cx), j \in 1..Len(cx) :
                i < j =>
                  /\ cx[j].kind = "section" => cx[i].kind = "section"
                  /\ (cx[i].kind = "section" /\ cx[j].kind = "section") =>
                       InOrder(cx[i].section, cx[j].section)
     /\ (gen.pc = "summaries" /\ gen'.pc = "count") =>
          \A l \in 1..MaxMsgs :
            {gen'.sections[n].index :
               n \in {k \in 1..Len(gen'.sections) :
                        /\ gen'.sections[k].kind = "summary"
                        /\ gen'.sections[k].level = l}}
              = IF l <= HighestLevel(gen.chatId)
                THEN {x.index : x \in AtLevel(gen.chatId, l)}
                ELSE {}]_vars

\* A context with the pinned section, Summaries of levels 2, 1 and 0 and a
\* raw window.
C19_Witness ==
  /\ gen.pc = "done"
  /\ Len(gen.recentMessages) > 0
  /\ \E n \in 1..Len(gen.sections) : gen.sections[n].kind = "memory"
  /\ \A l \in 0..2 :
       \E n \in 1..Len(gen.sections) :
         gen.sections[n].kind = "summary" /\ gen.sections[n].level = l

\* C20: the pinned section lists every Memory of the conversation and no
\* other, oldest first, however many are stored.
C20_PinnedFacts ==
  [][(gen.pc = "memories" /\ gen'.pc = "summaries") =>
       LET mine == SelectSeq(memories,
                     LAMBDA m : m.chatTelegramId = gen.chatId)
           pinned == SelectSeq(gen'.sections, LAMBDA x : x.kind = "memory")
       IN  IF Len(mine) = 0
           THEN Len(pinned) = 0
           ELSE /\ Len(pinned) = 1
                /\ pinned[1].body = [n \in 1..Len(mine) |-> mine[n].text]]_vars

----------------------------------------------------------------------------
(* Properties of trigger handling *)

\* How often the call x was made.
Count(calls, x) == Cardinality({n \in 1..Len(calls) : calls[n] = x})

\* The router's completion names neither function of the router: it holds no
\* tool call, or its first one names something else.
SelectsNeither(routerToolCalls) ==
  \/ Len(routerToolCalls) = 0
  \/ routerToolCalls[1].name \notin {"save_to_memory", "generate_response"}

\* C21: whatever the router's completion holds (no tool call, one, several,
\* an unknown name, arguments that do not parse), the decision is exactly
\* one of save_to_memory and generate_response and the matching branch runs;
\* when the completion names neither, it is generate_response with
\* provideAllChatHistory and enableWebAccess both false.
C21_RouteDecision ==
  \A p \in Handlers :
    LET r == run[p]
    IN  Count(r.calls, "router") > 0 /\ r.decision # "none" =>
          /\ r.decision \in {"save_to_memory", "generate_response"}
          /\ r.pc = "remember" => r.decision = "save_to_memory"
          /\ r.pc = "generate" => r.decision = "generate_response"
          /\ r.pc = "final" => r.decision = "save_to_memory"
          /\ SelectsNeither(r.routed) =>
               /\ r.decision = "generate_response"
               /\ ~r.provideAllChatHistory
               /\ ~r.enableWebAccess

C23_ToolCallFollowUp ==
  \A p \in Handlers :
    LET r == run[p]
    IN  (/\ r.decision = "generate_response"
         /\ r.requested
         /\ r.result \in {"replied", "fallback"}) =>
          /\ Count(r.calls, "addMemory") = 1
          /\ Count(r.calls, "generation") = 2

\* C24: a handler asks the router exactly once and for at most two
\* completions, and after a thrown error or a sent message it asks for
\* neither again.
C24_CallBudget ==
  \A p \in Handlers :
    LET r == run[p]
    IN  /\ Count(r.calls, "router") <= 1
        /\ Count(r.calls, "generation") <= 2
        /\ (\/ r.pc \in {"remember", "generate", "final", "notice", "reply",
                         "fallback"}
            \/ r.result \in {"replied", "fallback"}) =>
             Count(r.calls, "router") = 1
        /\ \A n, m \in 1..Len(r.calls) :
             (/\ n < m
              /\ r.calls[n] \in {"throw", "notice", "reply", "fallback"}) =>
               r.calls[m] \notin {"router", "generation"}

\* A handler ended with the apology after its completion came back empty or
\* rejected.
C24_Witness ==
  \E p \in Handlers :
    /\ run[p].result = "fallback"
    /\ run[p].calls = <<"router", "generation", "throw", "fallback">>

\* C25: a handler in which the router or the completion failed, or the
\* completion was empty, ends with the apology sent and stored as a message
\* of the conversation.
C25_FallbackPersisted ==
  \A p \in Handlers :
    LET r == run[p]
    IN  (/\ r.pc = "idle"
         /\ \E n \in 1..Len(r.calls) :
              /\ r.calls[n] = "throw"
              /\ r.calls[n - 1] \in {"router", "generation"}) =>
          /\ r.result = "fallback"
          /\ \E k \in 1..Len(messages) :
               /\ messages[k].chatTelegramId = r.chatId
               /\ messages[k].telegramId > r.telegramId
               /\ messages[k].text = "fallback"

\* C26: only a thrown router, completion or reply error takes a handler to
\* the apology, and a handler is aborted only before it starts
\* ensureSummaries: the outcome of that invocation does neither.
C26_FireAndForget ==
  \A p \in Handlers :
    LET r == run[p]
    IN  /\ (r.pc = "fallback" \/ r.result = "fallback") =>
             Count(r.calls, "throw") > 0
        /\ r.result = "aborted" => r.rollup = "none"
        /\ r.rollup # "none" /\ r.pc = "idle" =>
             r.result \in {"stored", "replied", "fallback", "silent"}

\* The reply was sent and stored while the ensureSummaries invocation of the
\* trigger had rejected.
C26_Witness ==
  \E p \in Handlers :
    /\ run[p].result = "replied"
    /\ run[p].rollup = "failed"
    /\ Count(run[p].calls, "throw") = 0

\* C28: a handler generates a reply exactly for a message whose author is
\* not the bot and whose text holds @<botUsername> or which replies to a
\* message of the bot.
C28_ReplyIff ==
  \A p \in Handlers :
    LET r == run[p]
    IN  r.pc = "idle" /\ r.result # "none" =>
          (Count(r.calls, "router") > 0
             <=> (/\ r.userTelegramId # BotId
                  /\ (r.mention \/ r.replyToBot)))

----------------------------------------------------------------------------
(* Properties of the rollup engine under fairness *)

\* Every block of every level that the stored messages support has a Summary.
AllSummarized(chatId) ==
  \A lvl \in 0..LiveMsgs :
    \A i \in 0..(Due(chatId, lvl) - 1) : exists(chatId, lvl, i)

----------------------------------------------------------------------------
(* Properties of concurrent handlers *)

\* C29: a handleMessage that has ended, in whatever interleaving with the
\* other slot, leaves exactly one stored message for its conversation and
\* native id.
C29_ExactlyOneStored ==
  \A p \in Procs :
    LET r == run[p]
    IN  r.pc = "idle" /\ r.result # "none" =>
          Len(findByMessageTelegramId(r.telegramId, r.chatId)) = 1

\* C30: when an editMessage call wrote while the other slot had read the
\* same message and not yet written, then once both have returned the
\* message holds one edit per call, with versions 1, 2, ... in order.
C30_InterleavedEdits ==
  \A p \in Procs :
    LET r == run[p]
        m == findByMessageTelegramId(r.telegramId, r.chatId)[1]
        log == editLog[<<r.chatId, r.telegramId>>]
    IN  (r.result = "raced" /\ \A q \in Procs : run[q].pc = "idle") =>
          /\ Len(m.edits) = Len(log)
          /\ \A v \in 1..Len(m.edits) : m.edits[v].version = v

\* C31: when two updateReactions calls by different authors on the same
\* message interleaved at their read and write steps, then once both have
\* returned the message holds every reaction either author added and none
\* either author removed.
C31_InterleavedReactions ==
  \A p \in Procs, q \in Procs :
    LET m == findByMessageTelegramId(run[p].telegramId, run[p].chatId)[1]
        HasReaction(userTelegramId, key) ==
          \E n \in 1..Len(m.reactions) :
            /\ m.reactions[n].userTelegramId = userTelegramId
            /\ m.reactions[n].emoji = key.emoji
            /\ m.reactions[n].customEmojiId = key.customEmojiId
    IN  (/\ run[p].pc = "idle" /\ run[p].result = "raced"
         /\ run[q].pc = "idle" /\ run[q].result = "late") =>
          \A w \in {p, q} :
            /\ \A n \in 1..Len(run[w].added) :
                 HasReaction(run[w].reactor, run[w].added[n])
            /\ \A n \in 1..Len(run[w].removed) :
                 ~HasReaction(run[w].reactor, run[w].removed[n])

\* C32: a handler in which generateResponse threw (the router or the
\* completion failed, or the completion was empty) has stored no memory
\* whose source is its trigger message.
C32_NoMemoryOnFailure ==
  \A p \in Handlers :
    LET r == run[p]
    IN  (\E n \in 1..Len(r.calls) :
           /\ r.calls[n] = "throw"
           /\ r.calls[n - 1] \in {"router", "generation"}) =>
          ~\E k \in 1..Len(memories) :
             /\ memories[k].chatTelegramId = r.chatId
             /\ memories[k].sourceMessageTelegramId = r.telegramId

\* C33: the messages at the sent-time positions index*K+1 .. index*K+K of
\* the conversation are the messages a stored level-0 Summary was made
\* from, whatever was saved after it was written.
C33_BlockPositions ==
  \A s \in summaries :
    s.level = 0 =>
      /\ countMessages(s.chatTelegramId) >= s.index * K + K
      /\ \A n \in 1..K :
           ChatMessages(s.chatTelegramId)[s.index * K + n].telegramId
             = s.src[n]

\* C34: saveMessage fails with DuplicateKey only for a (conversation,
\* native id) pair that is stored: a message with the same native id in
\* another conversation does not make it fail.
C34_PerConversationUniqueness ==
  (outcome.op = "saveMessage" /\ outcome.error = "DuplicateKey") =>
    Stored(outcome.chatTelegramId, outcome.telegramId)

\* C35: no stored reaction carries the user document the read-time join
\* resolves for its author.
C35_NoProfileWrittenBack ==
  \A n \in 1..Len(messages) :
    \A k \in 1..Len(messages[n].reactions) :
      messages[n].reactions[k].user = Undefined

\* C36: a handler of a redelivered message (its conversation and native id
\* are those of a stored message) adds and changes no message, Summary or
\* memory, sends nothing, starts no ensureSummaries and makes no router or
\* generation call, whether or not the message mentions the bot.
C36_RedeliveryInert ==
  [][\A p \in Handlers :
       (run'[p].redelivered /\ run'[p] # run[p]) =>
         /\ messages' = messages
         /\ summaries' = summaries
         /\ memories' = memories
         /\ sent' = sent
         /\ run'[p].pc \in {"find", "upsert", "save", "idle"}
         /\ run'[p].result \in {"none", "aborted"}
         /\ run'[p].rollup = "none"
         /\ run'[p].calls = <<>>]_vars

\* The handler of a redelivered message that mentions the bot has ended in
\* the catch of the event handler; the first delivery was replied to.
C36_Witness ==
  \E p \in Handlers :
    /\ run[p].redelivered /\ run[p].mention
    /\ run[p].userTelegramId # BotId
    /\ run[p].pc = "idle" /\ run[p].result = "aborted"
    /\ \E k \in 1..Len(messages) :
         /\ messages[k].chatTelegramId = run[p].chatId
         /\ messages[k].text = "reply"

C38_Level0Labels ==
  gen.pc \in {"built", "done"} =>
    \A n \in 1..Len(gen.sections) :
      LET s == gen.sections[n]
          newest == gen.totalMessages - (s.index + 1) * K
          oldest == gen.totalMessages - s.index * K - 1
      IN  (s.kind = "summary" /\ s.level = 0) =>
            /\ s.lower \in {newest, newest + 1}
            /\ s.upper \in {oldest, oldest + 1}

\* C39: every ensureSummaries invocation returns or rejects once its awaits
\* settle; its level loop leaves at the first level whose lower level has
\* fewer than K Summaries and at no other, and the level it has reached
\* never exceeds the number of messages of the conversation.
C39_InvocationTerminates ==
  /\ \A p \in Procs : ~Free(p) ~> Free(p)
  /\ [][\A p \in Procs :
          (inv[p].pc = "lower" /\ inv'[p] # inv[p]) =>
            (inv'[p].pc = "fin"
               <=> getCount(inv[p].chatId, inv[p].level - 1) < K)]_vars
  /\ [](\A p \in Procs :
          ~Free(p) => inv[p].level <= countMessages(inv[p].chatId))

\* An invocation has climbed to level 2 and is about to leave the loop
\* there, after a summarizeText call of the conversation failed.
C39_Witness ==
  \E p \in Procs :
    /\ inv[p].pc = "fin" /\ inv[p].level = 2
    /\ \E q \in Procs : inv[q].failed

\* C40: a step of ensureSummaries, saveMessage, editMessage,
\* updateReactions or addMemory for one conversation leaves the messages,
\* Summaries and memories of every other conversation as they are.
C40_OtherConversationsUntouched ==
  [][LET DataOf(msgs, sums, mems, chatId) ==
           <<SelectSeq(msgs, LAMBDA m : m.chatTelegramId = chatId),
             {x \in sums : x.chatTelegramId = chatId},
             SelectSeq(mems, LAMBDA m : m.chatTelegramId = chatId)>>
     IN  \A c \in Chats :
           OperationOn(c) =>
             \A d \in Chats \ {c} :
               DataOf(messages', summaries', memories', d)
                 = DataOf(messages, summaries, memories, d)]_vars

\* One conversation has a Summary and the other a message; a memory, a
\* reaction and an edit have been recorded.
C40_Witness ==
  /\ \E x \in summaries :
       \E n \in 1..Len(messages) :
         messages[n].chatTelegramId # x.chatTelegramId
  /\ Len(memories) > 0
  /\ \E n \in 1..Len(messages) : Len(messages[n].reactions) > 0
  /\ \E k \in DOMAIN editLog : Len(editLog[k]) > 0

====
